---- MODULE Spec2Model ----
(***************************************************************************)
(* A model of google_nest_sdm/event_media.py: the per-device               *)
(* EventMediaManager, its CachePolicy and the OrderedDict that caches the  *)
(* recent events.                                                          *)
(*                                                                         *)
(* The OrderedDict self._data is a sequence of event records, oldest       *)
(* position first; its keys are the records' event_id (line 152).          *)
(* async_handle_events has no await in its body and get_media changes      *)
(* self._data only before its first await, so each call is one step on     *)
(* the cache.                                                              *)
(*                                                                         *)
(* store is the media store a caller attaches to the cache policy          *)
(* (cache_policy.store = ...): the set of media keys it holds bytes for.   *)
(* The CachePolicy of lines 19-46 has no such field and the manager never  *)
(* reads one, so no call of the manager changes it.                        *)
(*                                                                         *)
(* inflight lists the get_media calls that are suspended in their awaits   *)
(* (lines 129 and 132), each as the event it read from the cache before    *)
(* it was suspended.                                                       *)
(*                                                                         *)
(* peer is the OrderedDict of the manager of a second device, built by the *)
(* same __init__ with the same trait names and the default policy.         *)
(***************************************************************************)
EXTENDS Integers, Sequences, FiniteSets

VARIABLES data, event_cache_size, prefetch, store, inflight, peer, recency, op

vars == <<data, event_cache_size, prefetch, store, inflight, peer, recency, op>>

(***************************************************************************)
(* Bounds of the model and constants of the program.                       *)
(***************************************************************************)
MaxEventId == 3

MaxTime == 2

MaxMsgLen == 2

MaxCacheSize == 2

MaxExpiry == 5

MaxInflight == 2

MaxTypes == 2

DEFAULT_CACHE_SIZE == 2

(***************************************************************************)
(* The device.  The keys of the event trait map are the event names of the *)
(* traits of the device; "Chime" is an event name the device has no trait  *)
(* for.  The "Motion" trait can produce event images, the "Sound" trait    *)
(* cannot.                                                                 *)
(***************************************************************************)
AllNames == {"Motion", "Sound", "Chime"}

EventTraitMap == {"Motion", "Sound"}

MediaCapable == {"Motion"}

(***************************************************************************)
(* Event records (ImageEventBase) and messages (EventMessage).  Every      *)
(* event of a message carries the timestamp of the message, and its        *)
(* event_type is the name it is filed under in resource_update_events.     *)
(* Event ids 1 and 2 belong to the same event session.                     *)
(***************************************************************************)
NoEvent == [event_id |-> 0, event_session_id |-> 0, event_type |-> "None", timestamp |-> 0]

SessionOf(id) == (id + 1) \div 2

ImageEventBase(name, id, ts) ==
    [event_id |-> id, event_session_id |-> SessionOf(id), event_type |-> name, timestamp |-> ts]

EventIds == 1..MaxEventId

Times == 1..MaxTime

DistinctNames(s) == \A i, j \in 1..Len(s) : i # j => s[i][1] # s[j][1]

NamedIds == UNION {{s \in [1..n -> AllNames \X EventIds] : DistinctNames(s)} : n \in 0..MaxMsgLen}

resource_update_events(s, ts) == [i \in 1..Len(s) |-> ImageEventBase(s[i][1], s[i][2], ts)]

EventMessages == {resource_update_events(s, ts) : s \in NamedIds, ts \in Times}

(***************************************************************************)
(* The fetch window of an event closes at its expires_at, a fixed time     *)
(* after its timestamp.  The messages are handled at time Now: only an     *)
(* event stamped Now is still active when it arrives, an older one has     *)
(* already expired.  An expired event stays expired.                       *)
(***************************************************************************)
Now == MaxTime

ExpiredAtArrival(e) == e.timestamp < Now

(***************************************************************************)
(* The media store (a collaborator): bytes are kept under a key derived    *)
(* from the event, by default its event session id; load yields the bytes  *)
(* of a key the store holds and nothing otherwise.                         *)
(***************************************************************************)
get_media_key(e) == e.event_session_id

MediaKeys == {SessionOf(id) : id \in EventIds}

load(s, key) == IF key \in s THEN "bytes" ELSE "None"

(***************************************************************************)
(* collections.OrderedDict, keyed by event_id.                             *)
(***************************************************************************)
Keys(d) == {d[i].event_id : i \in 1..Len(d)}

Values(d) == {d[i] : i \in 1..Len(d)}

IndexOf(d, k) == CHOOSE i \in 1..Len(d) : d[i].event_id = k

DictGetFirst(d, k) == IF k \in Keys(d) THEN d[1] ELSE NoEvent

DictGet(d, k) == IF k \in Keys(d) THEN d[IndexOf(d, k)] ELSE NoEvent

SetItem(d, k, v) ==
    IF k \in Keys(d) THEN [d EXCEPT ![IndexOf(d, k)] = v] ELSE Append(d, v)

MoveToEndNoop(d, k) == d

MoveToEnd(d, k) ==
    Append(SelectSeq(d, LAMBDA x : x.event_id # k), d[IndexOf(d, k)])

PopFirst(d) == Tail(d)

(***************************************************************************)
(* The trait collaborators (camera_traits.py) are not part of the manager: *)
(* the model records the calls the manager makes on them.                  *)
(* generate_event_image raises for a trait without media support, yields   *)
(* nothing for an expired event and a descriptor of the event's image      *)
(* otherwise; contents() either delivers the bytes the descriptor points   *)
(* at or fails in the transport.                                           *)
(***************************************************************************)
generate_event_image(e, expired) ==
    IF e.event_type \notin MediaCapable THEN "ValueError"
    ELSE IF expired THEN "None"
    ELSE "EventImage"

contents(e) == e.event_id

NoMedia == [event_id |-> 0, event_type |-> "None", event_timestamp |-> 0, contents |-> 0]

(***************************************************************************)
(* EventMediaManager.__init__ (line 110) gives every manager an            *)
(* OrderedDict of its own: what one manager writes to its self._data       *)
(* leaves the dict of another instance as it is.                           *)
(***************************************************************************)
OtherInstanceAliased(other, written) == written

OtherInstance(other, written) == other

(***************************************************************************)
(* EventMediaManager.async_handle_events: one pass of the loop body        *)
(* (lines 149-154) and the loop over the events of the message.  st holds  *)
(* the cache, the events passed to handle_event so far, the entries popped *)
(* so far, and the calls the loop has made on the trait and on the cache,  *)
(* in the order it made them.                                              *)
(***************************************************************************)
StoreAndForward(calls, e) ==
    calls \o <<[call |-> "store", event |-> e],
               [call |-> "handle_event", event |-> e]>>

ForwardAndStore(calls, e) ==
    calls \o <<[call |-> "handle_event", event |-> e],
               [call |-> "store", event |-> e]>>

HandleOneNoSkip(st, size, e) ==
    LET d1 == SetItem(st.data, e.event_id, e)
    IN  IF Len(d1) > size
        THEN [data |-> PopFirst(d1),
              handled |-> Append(st.handled, e),
              evicted |-> Append(st.evicted, Head(d1)),
              calls |-> ForwardAndStore(st.calls, e)]
        ELSE [data |-> d1,
              handled |-> Append(st.handled, e),
              evicted |-> st.evicted,
              calls |-> ForwardAndStore(st.calls, e)]

HandleOne(st, size, e) ==
    IF e.event_type \notin EventTraitMap THEN st
    ELSE LET d1 == SetItem(st.data, e.event_id, e)
         IN  IF Len(d1) > size
             THEN [data |-> PopFirst(d1),
                   handled |-> Append(st.handled, e),
                   evicted |-> Append(st.evicted, Head(d1)),
                   calls |-> ForwardAndStore(st.calls, e)]
             ELSE [data |-> d1,
                   handled |-> Append(st.handled, e),
                   evicted |-> st.evicted,
                   calls |-> ForwardAndStore(st.calls, e)]

RECURSIVE HandleFrom(_, _, _, _)
HandleFrom(st, size, events, i) ==
    IF i > Len(events) THEN st
    ELSE HandleFrom(HandleOne(st, size, events[i]), size, events, i + 1)

async_handle_events(d, size, events) ==
    HandleFrom([data |-> d, handled |-> <<>>, evicted |-> <<>>,
                calls |-> <<>>], size, events, 1)

(***************************************************************************)
(* EventMediaManager.get_media (lines 122-134).  expired and failing are   *)
(* the outcomes of the two awaited calls.                                  *)
(***************************************************************************)
MissRaises(d) == [data |-> d, result |-> "KeyError", fetches |-> 0, media |-> NoMedia]

Miss(d) == [data |-> d, result |-> "None", fetches |-> 0, media |-> NoMedia]

FetchRetries(d, event_id, event, expired, failing) ==
    LET image == generate_event_image(event, expired)
    IN  IF event.event_type \notin EventTraitMap
        THEN [data |-> d, result |-> "None", fetches |-> 0, media |-> NoMedia]
        ELSE IF image = "ValueError"
        THEN [data |-> d, result |-> "ValueError", fetches |-> 0, media |-> NoMedia]
        ELSE IF image = "None"
        THEN [data |-> d, result |-> "None", fetches |-> 0, media |-> NoMedia]
        ELSE IF failing
        THEN [data |-> d, result |-> "FetchError", fetches |-> 2, media |-> NoMedia]
        ELSE [data |-> d, result |-> "EventMedia", fetches |-> 1,
              media |-> [event_id |-> event_id,
                         event_type |-> event.event_type,
                         event_timestamp |-> event.timestamp,
                         contents |-> contents(event)]]

FetchStale(d, event_id, event, expired, failing) ==
    LET image == generate_event_image(event, expired)
    IN  IF event.event_type \notin EventTraitMap
        THEN [data |-> d, result |-> "None", fetches |-> 0, media |-> NoMedia]
        ELSE IF image = "ValueError"
        THEN [data |-> d, result |-> "ValueError", fetches |-> 0, media |-> NoMedia]
        ELSE IF failing
        THEN [data |-> d, result |-> "FetchError", fetches |-> 1, media |-> NoMedia]
        ELSE [data |-> d, result |-> "EventMedia", fetches |-> 1,
              media |-> [event_id |-> event_id,
                         event_type |-> event.event_type,
                         event_timestamp |-> event.timestamp,
                         contents |-> contents(event)]]

FetchSwallows(d, event_id, event, expired, failing) ==
    LET image == generate_event_image(event, expired)
    IN  IF event.event_type \notin EventTraitMap \/ image \in {"ValueError", "None"}
        THEN [data |-> d, result |-> "None", fetches |-> 0, media |-> NoMedia]
        ELSE IF failing
        THEN [data |-> d, result |-> "FetchError", fetches |-> 1, media |-> NoMedia]
        ELSE [data |-> d, result |-> "EventMedia", fetches |-> 1,
              media |-> [event_id |-> event_id,
                         event_type |-> event.event_type,
                         event_timestamp |-> event.timestamp,
                         contents |-> contents(event)]]

Fetch(d, event_id, event, expired, failing) ==
    LET image == generate_event_image(event, expired)
    IN  IF event.event_type \notin EventTraitMap
        THEN [data |-> d, result |-> "None", fetches |-> 0, media |-> NoMedia]
        ELSE IF image = "ValueError"
        THEN [data |-> d, result |-> "ValueError", fetches |-> 0, media |-> NoMedia]
        ELSE IF image = "None"
        THEN [data |-> d, result |-> "None", fetches |-> 0, media |-> NoMedia]
        ELSE IF failing
        THEN [data |-> d, result |-> "FetchError", fetches |-> 1, media |-> NoMedia]
        ELSE [data |-> d, result |-> "EventMedia", fetches |-> 1,
              media |-> [event_id |-> event_id,
                         event_type |-> event.event_type,
                         event_timestamp |-> event.timestamp,
                         contents |-> contents(event)]]

get_media(d, event_id, expired, failing) ==
    IF DictGet(d, event_id) = NoEvent
    THEN Miss(d)
    ELSE Fetch(MoveToEnd(d, event_id), event_id, DictGet(d, event_id), expired, failing)

(***************************************************************************)
(* EventMediaManager.events (lines 136-140): list.sort is stable, also     *)
(* with reverse=True, so records with equal timestamps keep the order of   *)
(* the OrderedDict.                                                        *)
(***************************************************************************)
InsertByTimestampAscending(sorted, x) ==
    LET p == Cardinality({i \in 1..Len(sorted) : sorted[i].timestamp <= x.timestamp})
    IN  SubSeq(sorted, 1, p) \o <<x>> \o SubSeq(sorted, p + 1, Len(sorted))

InsertByTimestamp(sorted, x) ==
    LET p == Cardinality({i \in 1..Len(sorted) : sorted[i].timestamp >= x.timestamp})
    IN  SubSeq(sorted, 1, p) \o <<x>> \o SubSeq(sorted, p + 1, Len(sorted))

RECURSIVE SortByTimestamp(_)
SortByTimestamp(s) ==
    IF s = <<>> THEN <<>>
    ELSE InsertByTimestamp(SortByTimestamp(SubSeq(s, 1, Len(s) - 1)), s[Len(s)])

events(d) == SortByTimestamp(d)

(***************************************************************************)
(* The traits of the event trait map as active_event_trait sees them.  A   *)
(* trait keeps the last event handle_event gave it; the event is the       *)
(* trait's active event until it expires.  expires_at is later than the    *)
(* timestamp, by a span that depends on the kind of event.                 *)
(***************************************************************************)
NoTraitEvent == [timestamp |-> 0, expires_at |-> 0]

TraitEvents ==
    {e \in [timestamp : Times, expires_at : 1..MaxExpiry] : e.expires_at > e.timestamp}

TraitStates == [EventTraitMap -> TraitEvents \cup {NoTraitEvent}]

IterationOrders ==
    {o \in [1..Cardinality(EventTraitMap) -> EventTraitMap] :
        \A i, j \in DOMAIN o : i # j => o[i] # o[j]}

last_event(traits, name) == traits[name]

active_event(traits, name) ==
    IF traits[name] # NoTraitEvent /\ traits[name].expires_at > Now
    THEN traits[name]
    ELSE NoTraitEvent

(***************************************************************************)
(* EventMediaManager.active_event_trait (lines 166-181): one pass of the   *)
(* loop body for the trait called name, with trait_to_return so far, and   *)
(* the loop over the values of the trait map in their iteration order.     *)
(***************************************************************************)
ResolveStepAnyEvent(trait_to_return, name, traits) ==
    IF last_event(traits, name) = NoTraitEvent THEN trait_to_return
    ELSE IF trait_to_return = "None" THEN name
    ELSE IF last_event(traits, name).expires_at
                > last_event(traits, trait_to_return).expires_at
    THEN name
    ELSE trait_to_return

ResolveStepByTimestamp(trait_to_return, name, traits) ==
    IF active_event(traits, name) = NoTraitEvent THEN trait_to_return
    ELSE IF trait_to_return = "None" THEN name
    ELSE IF \/ last_event(traits, name) = NoTraitEvent
            \/ last_event(traits, trait_to_return) = NoTraitEvent
    THEN trait_to_return
    ELSE IF last_event(traits, name).timestamp
                > last_event(traits, trait_to_return).timestamp
    THEN name
    ELSE trait_to_return

ResolveStep(trait_to_return, name, traits) ==
    IF active_event(traits, name) = NoTraitEvent THEN trait_to_return
    ELSE IF trait_to_return = "None" THEN name
    ELSE IF \/ last_event(traits, name) = NoTraitEvent
            \/ last_event(traits, trait_to_return) = NoTraitEvent
    THEN trait_to_return
    ELSE IF last_event(traits, name).expires_at
                > last_event(traits, trait_to_return).expires_at
    THEN name
    ELSE trait_to_return

RECURSIVE ResolveFrom(_, _, _, _)
ResolveFrom(trait_to_return, order, i, traits) ==
    IF i > Len(order) THEN trait_to_return
    ELSE ResolveFrom(ResolveStep(trait_to_return, order[i], traits), order, i + 1, traits)

active_event_trait(order, traits) == ResolveFrom("None", order, 1, traits)

(***************************************************************************)
(* What evaluating the property does to the manager: it reads last_event   *)
(* and active_event of the traits, returns the trait it selected, and      *)
(* neither calls generate_event_image nor touches the cache d.             *)
(***************************************************************************)
ActiveEventTraitCallFetching(d, order, traits) ==
    [trait |-> active_event_trait(order, traits),
     data |-> d,
     fetches |-> IF active_event_trait(order, traits) = "None" THEN 0 ELSE 1]

ActiveEventTraitCall(d, order, traits) ==
    [trait |-> active_event_trait(order, traits),
     data |-> d,
     fetches |-> 0]

(***************************************************************************)
(* EventMediaManager.active_events (lines 156-164).  The dict it returns   *)
(* is kept as its set of <<name, event>> pairs; assigning to a name that   *)
(* is already a key replaces its pair.  event_types is the list the        *)
(* caller passes: any names, mapped or not, repeated or not.               *)
(***************************************************************************)
EventTypeLists == UNION {[1..n -> AllNames] : n \in 0..MaxTypes}

DictKeys(g) == {p[1] : p \in g}

DictAssign(g, k, v) == {p \in g : p[1] # k} \cup {<<k, v>>}

ActiveEventsStepLastEvent(found, event_type, traits) ==
    IF event_type \notin EventTraitMap THEN found
    ELSE IF last_event(traits, event_type) = NoTraitEvent THEN found
    ELSE DictAssign(found, event_type, last_event(traits, event_type))

ActiveEventsStep(found, event_type, traits) ==
    IF event_type \notin EventTraitMap THEN found
    ELSE IF active_event(traits, event_type) = NoTraitEvent THEN found
    ELSE DictAssign(found, event_type, active_event(traits, event_type))

RECURSIVE ActiveEventsFrom(_, _, _, _)
ActiveEventsFrom(found, event_types, i, traits) ==
    IF i > Len(event_types) THEN found
    ELSE ActiveEventsFrom(ActiveEventsStep(found, event_types[i], traits),
                          event_types, i + 1, traits)

active_events(event_types, traits) == ActiveEventsFrom({}, event_types, 1, traits)

(***************************************************************************)
(* get_active_event_media (not a method of the manager in this file):      *)
(* picks a trait with the resolver and fetches the media of that trait's   *)
(* current event as get_media does; absent when the resolver picks none.   *)
(***************************************************************************)
get_active_event_media(order, traits, expired, failing) ==
    LET trait == active_event_trait(order, traits)
        image == generate_event_image([event_type |-> trait], expired)
    IN  IF trait = "None" THEN [result |-> "None", fetches |-> 0]
        ELSE IF image = "ValueError" THEN [result |-> "ValueError", fetches |-> 0]
        ELSE IF image = "None" THEN [result |-> "None", fetches |-> 0]
        ELSE IF failing THEN [result |-> "FetchError", fetches |-> 1]
        ELSE [result |-> "EventMedia", fetches |-> 1]

(***************************************************************************)
(* History kept for the properties.  recency lists the cached keys by      *)
(* their last use, least recent first, where a use is an insert, a merge   *)
(* or a get_media hit.  op describes the last call: its arguments, what    *)
(* it returned and the calls it made on the traits (image is what          *)
(* generate_event_image yielded to get_media; order and traits are the     *)
(* trait map active_event_trait read, trait the name of the trait it       *)
(* returned, calls the handle_event and store steps of                     *)
(* async_handle_events in the order it made them).                         *)
(***************************************************************************)
Touch(rec, k) == Append(SelectSeq(rec, LAMBDA x : x # k), k)

Forget(rec, ks) == SelectSeq(rec, LAMBDA x : x \notin ks)

RECURSIVE Replay(_, _, _, _)
Replay(g, size, evs, i) ==
    IF i > Len(evs) THEN g
    ELSE IF evs[i].event_type \notin EventTraitMap THEN Replay(g, size, evs, i + 1)
    ELSE LET st == HandleOne([data |-> g.data, handled |-> <<>>, evicted |-> <<>>,
                              calls |-> <<>>],
                             size, evs[i])
             rec1 == Touch(g.recency, evs[i].event_id)
             gone == {st.evicted[j].event_id : j \in 1..Len(st.evicted)}
         IN  Replay([data |-> st.data,
                     recency |-> Forget(rec1, gone),
                     lru |-> g.lru /\ (gone = {} \/ gone = {Head(rec1)})],
                    size, evs, i + 1)

ReplayMessage(evs) ==
    Replay([data |-> data, recency |-> recency, lru |-> TRUE], event_cache_size, evs, 1)

Ingested(evs) == SelectSeq(evs, LAMBDA e : e.event_type \in EventTraitMap)

KeysOf(s) == [i \in 1..Len(s) |-> s[i].event_id]

NoOp ==
    [kind |-> "init", key |-> 0, image |-> "NotCalled", result |-> "None", fetches |-> 0,
     media |-> NoMedia, events |-> <<>>, handled |-> <<>>, listing |-> <<>>,
     order |-> <<>>, traits |-> [name \in EventTraitMap |-> NoTraitEvent],
     trait |-> "None", calls |-> <<>>, event_types |-> <<>>,
     active_events |-> {}]

(***************************************************************************)
(* The setters of CachePolicy (lines 33-36 and 43-46), on the manager and  *)
(* the policy it holds: each assigns one field of the policy.              *)
(***************************************************************************)
Manager == [data |-> data, event_cache_size |-> event_cache_size, prefetch |-> prefetch]

set_event_cache_size_eager(m, value) ==
    [m EXCEPT !.event_cache_size = value,
              !.data = IF Len(m.data) > value
                       THEN SubSeq(m.data, Len(m.data) - value + 1, Len(m.data))
                       ELSE m.data]

set_event_cache_size(m, value) == [m EXCEPT !.event_cache_size = value]

set_prefetch(m, value) == [m EXCEPT !.prefetch = value]

(***************************************************************************)
(* The state after construction (lines 22-26 and 106-110) and the calls.   *)
(***************************************************************************)
Init ==
    /\ data = <<>>
    /\ event_cache_size = DEFAULT_CACHE_SIZE
    /\ prefetch = FALSE
    /\ store = {}
    /\ recency = <<>>
    /\ op = NoOp
    /\ inflight = <<>>
    /\ peer = <<>>

AsyncHandleEvents ==
    \E evs \in EventMessages :
        LET st == async_handle_events(data, event_cache_size, evs)
        IN  /\ data' = st.data
            /\ peer' = OtherInstance(peer, st.data)
            /\ recency' = ReplayMessage(evs).recency
            /\ op' = [NoOp EXCEPT !.kind = "async_handle_events", !.events = evs,
                                   !.handled = st.handled,
                                   !.calls = st.calls]
            /\ UNCHANGED <<event_cache_size, prefetch, store, inflight>>

GetMedia ==
    \E k \in EventIds, expired \in BOOLEAN, failing \in BOOLEAN :
        LET r == get_media(data, k, expired, failing)
        IN  /\ ExpiredAtArrival(DictGet(data, k)) => expired
            /\ data' = r.data
            /\ recency' = IF k \in Keys(data) THEN Touch(recency, k) ELSE recency
            /\ op' = [NoOp EXCEPT !.kind = "get_media", !.key = k, !.result = r.result,
                                   !.fetches = r.fetches, !.media = r.media,
                                   !.image = IF k \in Keys(data)
                                             THEN generate_event_image(DictGet(data, k),
                                                                       expired)
                                             ELSE "NotCalled"]
            /\ UNCHANGED <<event_cache_size, prefetch, store, peer, inflight>>

Events ==
    /\ op' = [NoOp EXCEPT !.kind = "events", !.listing = events(data)]
    /\ UNCHANGED <<data, event_cache_size, prefetch, store, peer, inflight, recency>>

SetEventCacheSize ==
    \E value \in 1..MaxCacheSize :
        LET m == set_event_cache_size(Manager, value)
        IN  /\ data' = m.data
            /\ event_cache_size' = m.event_cache_size
            /\ prefetch' = m.prefetch
            /\ op' = [NoOp EXCEPT !.kind = "event_cache_size"]
            /\ UNCHANGED <<store, peer, inflight, recency>>

SetPrefetch ==
    \E value \in BOOLEAN :
        LET m == set_prefetch(Manager, value)
        IN  /\ data' = m.data
            /\ event_cache_size' = m.event_cache_size
            /\ prefetch' = m.prefetch
            /\ op' = [NoOp EXCEPT !.kind = "prefetch"]
            /\ UNCHANGED <<store, peer, inflight, recency>>

SetCachePolicy ==
    \E size \in 1..MaxCacheSize, value \in BOOLEAN :
        /\ event_cache_size' = size
        /\ prefetch' = value
        /\ op' = [NoOp EXCEPT !.kind = "cache_policy"]
        /\ UNCHANGED <<data, store, peer, inflight, recency>>

Next ==
    \/ AsyncHandleEvents
    \/ GetMedia
    \/ Events
    \/ SetEventCacheSize
    \/ SetPrefetch
    \/ SetCachePolicy

Spec == Init /\ [][Next]_vars

(***************************************************************************)
(* The calls that only read the cache, from every cache the manager can    *)
(* hold: any sequence of at most MaxCacheSize events of mapped names with  *)
(* distinct keys is reached by handling its events one by one.             *)
(***************************************************************************)
MappedEvents ==
    {ImageEventBase(name, id, ts) : name \in EventTraitMap, id \in EventIds, ts \in Times}

CacheStates ==
    UNION {{d \in [1..n -> MappedEvents] :
                \A i, j \in 1..n : i # j => d[i].event_id # d[j].event_id} :
           n \in 0..MaxCacheSize}

InitRead ==
    /\ data \in CacheStates
    /\ event_cache_size = DEFAULT_CACHE_SIZE
    /\ prefetch = FALSE
    /\ store = {}
    /\ recency = KeysOf(data)
    /\ op = NoOp
    /\ inflight = <<>>
    /\ peer = <<>>

NextRead ==
    \/ GetMedia
    \/ Events

SpecRead == InitRead /\ [][NextRead]_vars

(***************************************************************************)
(* The manager with fetching on arrival turned on and a store attached,    *)
(* as in test_event_manager_cache_expiration.  The store is an object of   *)
(* the caller, durable or shared with other managers, and may hold media   *)
(* under any of the keys; the cache is any cache the manager can hold,     *)
(* also one left above a decreased event_cache_size.                       *)
(***************************************************************************)
InitStore ==
    /\ data \in CacheStates
    /\ event_cache_size \in 1..MaxCacheSize
    /\ prefetch = TRUE
    /\ store \in SUBSET MediaKeys
    /\ recency = KeysOf(data)
    /\ op = NoOp
    /\ inflight = <<>>
    /\ peer = <<>>

NextStore ==
    \/ AsyncHandleEvents
    \/ GetMedia

SpecStore == InitStore /\ [][NextStore]_vars

(***************************************************************************)
(* get_media with its suspension.  GetMediaStart is the call up to its     *)
(* first await (lines 124-129): a miss returns at once, a hit is touched   *)
(* and the call is suspended holding the event it read.                    *)
(* GetMediaComplete is the rest of a suspended call (lines 129-134): the   *)
(* awaits end, with expired and failing as their outcomes, and the call    *)
(* returns; it does not read the cache again.  Other calls run in between. *)
(* A message handled meanwhile carries one event stamped Now.              *)
(***************************************************************************)
RemoveAt(s, i) == SubSeq(s, 1, i - 1) \o SubSeq(s, i + 1, Len(s))

GetMediaStart ==
    \E k \in EventIds :
        /\ Len(inflight) < MaxInflight
        /\ IF DictGet(data, k) = NoEvent
           THEN /\ op' = [NoOp EXCEPT !.kind = "get_media", !.key = k,
                                      !.result = Miss(data).result]
                /\ UNCHANGED <<data, inflight, recency>>
           ELSE /\ data' = MoveToEnd(data, k)
                /\ inflight' = Append(inflight, DictGet(data, k))
                /\ recency' = Touch(recency, k)
                /\ op' = [NoOp EXCEPT !.kind = "get_media_start", !.key = k]
        /\ UNCHANGED <<event_cache_size, prefetch, store, peer>>

GetMediaComplete ==
    \E i \in 1..Len(inflight), expired \in BOOLEAN, failing \in BOOLEAN :
        LET event == inflight[i]
            r == Fetch(data, event.event_id, event, expired, failing)
        IN  /\ ExpiredAtArrival(event) => expired
            /\ data' = r.data
            /\ inflight' = RemoveAt(inflight, i)
            /\ op' = [NoOp EXCEPT !.kind = "get_media", !.key = event.event_id,
                                   !.result = r.result, !.fetches = r.fetches,
                                   !.media = r.media,
                                   !.image = generate_event_image(event, expired)]
            /\ UNCHANGED <<event_cache_size, prefetch, store, peer, recency>>

InitAsync ==
    /\ data = <<>>
    /\ event_cache_size \in 1..MaxCacheSize
    /\ prefetch = FALSE
    /\ store = {}
    /\ recency = <<>>
    /\ op = NoOp
    /\ inflight = <<>>
    /\ peer = <<>>

NextAsync ==
    \/ AsyncHandleEvents /\ Len(op'.events) = 1 /\ op'.events[1].timestamp = Now
    \/ GetMediaStart
    \/ GetMediaComplete

SpecAsync == InitAsync /\ [][NextAsync]_vars

(***************************************************************************)
(* Two devices.  PeerAsyncHandleEvents is async_handle_events of the       *)
(* manager of the second device, whose policy is the default one; the      *)
(* messages of both devices draw on the same event and session ids and     *)
(* the store is the one store both policies name.  A message carries one   *)
(* event stamped Now.                                                      *)
(***************************************************************************)
PeerAsyncHandleEvents ==
    \E evs \in EventMessages :
        LET st == async_handle_events(peer, DEFAULT_CACHE_SIZE, evs)
        IN  /\ Len(evs) = 1 /\ evs[1].timestamp = Now
            /\ peer' = st.data
            /\ data' = OtherInstance(data, st.data)
            /\ op' = [NoOp EXCEPT !.kind = "peer_async_handle_events", !.events = evs,
                                   !.handled = st.handled,
                                   !.calls = st.calls]
            /\ UNCHANGED <<event_cache_size, prefetch, store, inflight, recency>>

NextDevices ==
    \/ AsyncHandleEvents /\ Len(op'.events) = 1 /\ op'.events[1].timestamp = Now
    \/ PeerAsyncHandleEvents

SpecDevices == Init /\ [][NextDevices]_vars

(***************************************************************************)
(* The active-event resolver.  The traits are collaborators whose events   *)
(* the manager does not keep: each evaluation of the property finds them   *)
(* in some state, and the trait map in the order it was built in.          *)
(***************************************************************************)
ActiveEventTrait ==
    \E order \in IterationOrders, traits \in TraitStates :
        LET r == ActiveEventTraitCall(data, order, traits)
        IN  /\ data' = r.data
            /\ op' = [NoOp EXCEPT !.kind = "active_event_trait", !.order = order,
                                   !.traits = traits,
                                   !.trait = r.trait,
                                   !.fetches = r.fetches]
            /\ UNCHANGED <<event_cache_size, prefetch, store, peer, inflight, recency>>

GetActiveEventMedia ==
    \E order \in IterationOrders, traits \in TraitStates,
       expired \in BOOLEAN, failing \in BOOLEAN :
        LET r == get_active_event_media(order, traits, expired, failing)
        IN  /\ op' = [NoOp EXCEPT !.kind = "get_active_event_media", !.order = order,
                                   !.traits = traits,
                                   !.trait = active_event_trait(order, traits),
                                   !.result = r.result, !.fetches = r.fetches]
            /\ UNCHANGED <<data, event_cache_size, prefetch, store, peer, inflight, recency>>

NextActive ==
    \/ ActiveEventTrait
    \/ GetActiveEventMedia

SpecActive == Init /\ [][NextActive]_vars

(***************************************************************************)
(* The calls that only read the traits, made on a manager that holds       *)
(* records: the cache is any cache of Motion events that arrived at Now,   *)
(* in insertion order, under the default policy.                           *)
(***************************************************************************)
ActiveEvents ==
    \E event_types \in EventTypeLists, traits \in TraitStates :
        /\ op' = [NoOp EXCEPT !.kind = "active_events",
                               !.event_types = event_types,
                               !.traits = traits,
                               !.active_events = active_events(event_types, traits)]
        /\ UNCHANGED <<data, event_cache_size, prefetch, store, peer, inflight, recency>>

ResolveCaches ==
    {d \in CacheStates :
        \A i \in 1..Len(d) : d[i].event_type = "Motion" /\ d[i].timestamp = Now}

InitResolve ==
    /\ data \in ResolveCaches
    /\ event_cache_size = DEFAULT_CACHE_SIZE
    /\ prefetch = FALSE
    /\ store = {}
    /\ recency = KeysOf(data)
    /\ op = NoOp
    /\ inflight = <<>>
    /\ peer = <<>>

NextResolve ==
    \/ ActiveEventTrait
    \/ ActiveEvents

SpecResolve == InitResolve /\ [][NextResolve]_vars

(***************************************************************************)
(* Properties.                                                             *)
(***************************************************************************)
TypeOK ==
    /\ event_cache_size \in 1..MaxCacheSize
    /\ prefetch \in BOOLEAN
    /\ store \subseteq MediaKeys
    /\ peer \in CacheStates
    /\ Len(inflight) <= MaxInflight
    /\ \A i \in 1..Len(inflight) : inflight[i] \in MappedEvents
    /\ data \in CacheStates
    /\ \A i, j \in 1..Len(data) : i # j => data[i].event_id # data[j].event_id
    /\ Len(recency) = Len(data)
    /\ {recency[i] : i \in 1..Len(recency)} = Keys(data)

Handle(evs) == async_handle_events(data, event_cache_size, evs)

LastKey(s) == s[Len(s)].event_id

\* C1: whenever an async_handle_events call returns, the number of cached
\* events is at most the current event_cache_size.
C1_SizeWithinBoundOnReturn ==
    op.kind = "async_handle_events" => Len(data) <= event_cache_size

\* C2: every entry an async_handle_events call evicts is, at the moment it is
\* evicted, the least recently touched one, a touch being an insert, a merge
\* or a get_media hit.
C2_EvictsLeastRecentlyTouched ==
    [][op'.kind = "async_handle_events" => ReplayMessage(op'.events).lru]_vars

\* C3: a get_media hit leaves the session in the most recent position, whatever
\* the fetch yields, and a later async_handle_events evicts the session in that
\* position only after every other session that was cached with it.
C3_GetMediaTouches ==
    [][/\ (op'.kind = "get_media" /\ op'.key \in Keys(data)) =>
            (Len(data') = Len(data) /\ LastKey(data') = op'.key)
       /\ (op'.kind = "async_handle_events" /\ data # <<>>) =>
            LET out == KeysOf(Handle(op'.events).evicted)
            IN  \A i \in 1..Len(out) :
                    out[i] = LastKey(data) =>
                        \A k \in Keys(data) \ {LastKey(data)} :
                            \E j \in 1..(i - 1) : out[j] = k]_vars

C3_Witness ==
    /\ op.kind = "get_media"
    /\ op.result = "FetchError"
    /\ Len(data) = 2
    /\ event_cache_size = 2
    /\ LastKey(data) = op.key

\* C4: after async_handle_events has handled an event, inserted or merged, the
\* key of the last event it handled is in the most recent position.
C4_MergeMovesToMostRecent ==
    (op.kind = "async_handle_events" /\ op.handled # <<>>) =>
        (data # <<>> /\ LastKey(data) = LastKey(op.handled))

\* C5: events that share an event session id occupy one cache entry, and that
\* entry is the last of them that was handled.
C5_OneEntryPerSession ==
    /\ \A i, j \in 1..Len(data) :
            i # j => data[i].event_session_id # data[j].event_session_id
    /\ op.kind = "async_handle_events" =>
            \A i \in 1..Len(op.handled) : \A j \in 1..Len(data) :
                (/\ data[j].event_session_id = op.handled[i].event_session_id
                 /\ \A l \in (i + 1)..Len(op.handled) :
                        op.handled[l].event_session_id # op.handled[i].event_session_id)
                => data[j] = op.handled[i]

\* C6: when the cache holds more events than event_cache_size, the next
\* async_handle_events that ingests an event evicts down to the bound.
C6_ShrinkEvictsToBound ==
    [][(/\ Len(data) > event_cache_size
        /\ op'.kind = "async_handle_events"
        /\ op'.handled # <<>>) => Len(data') <= event_cache_size']_vars

Position(s, x) == CHOOSE i \in 1..Len(s) : s[i] = x

\* C7 as stated: events() lists the cached records, each once, by timestamp
\* descending, and a get_media call never changes what events() returns.
C7_EventsIndependentOfLru ==
    [][/\ op'.kind = "events" =>
            /\ Len(op'.listing) = Len(data) /\ Values(op'.listing) = Values(data)
            /\ \A i, j \in 1..Len(op'.listing) :
                    i < j => op'.listing[i].timestamp >= op'.listing[j].timestamp
       /\ op'.kind = "get_media" => events(data') = events(data)]_vars

\* C7 as amended: events() lists the cached records, each once, by timestamp
\* descending, and records with equal timestamps in their cache (LRU) order.
C7_EventsSortedStable ==
    op.kind = "events" =>
        /\ Len(op.listing) = Len(data)
        /\ Values(op.listing) = Values(data)
        /\ \A i, j \in 1..Len(op.listing) :
                i < j =>
                    \/ op.listing[i].timestamp > op.listing[j].timestamp
                    \/ /\ op.listing[i].timestamp = op.listing[j].timestamp
                       /\ Position(data, op.listing[i]) < Position(data, op.listing[j])

C7_Witness ==
    /\ op.kind = "events"
    /\ Len(op.listing) = 2
    /\ op.listing[1].timestamp = op.listing[2].timestamp
    /\ op.listing = data

\* C8: get_media for an id that is not in the cache returns absent without an
\* error, issues no fetch and leaves the cache and its order as they were.
C8_GetMediaAbsent ==
    [][(op'.kind = "get_media" /\ op'.key \notin Keys(data)) =>
            (op'.result = "None" /\ op'.fetches = 0 /\ data' = data)]_vars

C8_Witness ==
    /\ op.kind = "get_media"
    /\ op.key \notin Keys(data)
    /\ op.result = "None"
    /\ Len(data) = 2

C10_SkipsUnmapped ==
    [][op'.kind = "async_handle_events" =>
            /\ data' = Handle(Ingested(op'.events)).data
            /\ Ingested(op'.events) = <<>> => data' = data
            /\ \A i \in 1..Len(op'.events) :
                    op'.events[i].event_type \notin EventTraitMap =>
                        op'.events[i] \notin Values(data')]_vars

C10_Witness ==
    /\ op.kind = "async_handle_events"
    /\ Len(op.events) = 2
    /\ op.events[1].event_type = "Chime"
    /\ op.events[1].event_id \notin Keys(data)
    /\ op.events[2] \in Values(data)
    /\ Len(data) = 2

LastOf(s) == s[Len(s)]

\* C11: an event of a trait that cannot produce media is recorded by
\* async_handle_events like any other: once the call has handled it as its
\* last event, events() lists it, and every later get_media for it fails.
C11_NoMediaTraitRecorded ==
    (/\ op.kind = "async_handle_events"
     /\ op.handled # <<>>
     /\ LastOf(op.handled).event_type \in EventTraitMap \ MediaCapable) =>
        /\ LastOf(op.handled) \in Values(data)
        /\ LastOf(op.handled) \in Values(events(data))
        /\ \A expired, failing \in BOOLEAN :
                get_media(data, LastOf(op.handled).event_id, expired, failing).result
                    = "ValueError"

\* C12: when async_handle_events evicts a session while a store is attached,
\* the store no longer holds media under that session's key once the call
\* has returned, and media the store held for a session that is still cached
\* is still loadable.
C12_EvictionRemovesFromStore ==
    [][op'.kind = "async_handle_events" =>
            LET out == Handle(op'.events).evicted
                kept == {get_media_key(e) : e \in Values(data')}
            IN  /\ \A i \in 1..Len(out) :
                        get_media_key(out[i]) \notin kept =>
                            load(store', get_media_key(out[i])) = "None"
                /\ \A key \in kept :
                        load(store, key) = "bytes" => load(store', key) = "bytes"]_vars

\* C13: with prefetch off, async_handle_events issues no fetch, a get_media
\* that delivers media has issued exactly one fetch, and a get_media for the
\* same session right after one that delivered its media issues no fetch and
\* delivers the same bytes.
C13_SecondGetMediaFromStore ==
    [][~prefetch =>
            /\ op'.kind = "async_handle_events" => op'.fetches = 0
            /\ (op'.kind = "get_media" /\ op'.result = "EventMedia"
                    /\ ~(op.kind = "get_media" /\ op.key = op'.key)) => op'.fetches = 1
            /\ (/\ op.kind = "get_media" /\ op.result = "EventMedia"
                /\ op'.kind = "get_media" /\ op'.key = op.key) =>
                    /\ op'.fetches = 0
                    /\ op'.result = "EventMedia"
                    /\ op'.media.contents = op.media.contents]_vars

\* C14: with prefetch on, when async_handle_events returns, the media of
\* every event it stored that was active at arrival and whose trait can
\* produce media is in the store, loadable without a get_media call.
C14_PrefetchSavesActive ==
    (op.kind = "async_handle_events" /\ prefetch) =>
        \A e \in Values(data) :
            (/\ \E i \in 1..Len(op.handled) : op.handled[i] = e
             /\ e.event_type \in MediaCapable
             /\ ~ExpiredAtArrival(e)) =>
                load(store, get_media_key(e)) = "bytes"

\* C15: an event that has already expired when it arrives is recorded: once
\* async_handle_events has handled it as its last event, events() lists it.
\* No fetch is issued for it, neither by that call, whatever prefetch is, nor
\* by a later get_media.
C15_ExpiredRecordedNeverFetched ==
    [][/\ (/\ op'.kind = "async_handle_events"
           /\ op'.handled # <<>>
           /\ ExpiredAtArrival(LastOf(op'.handled))) =>
                /\ LastOf(op'.handled) \in Values(events(data'))
                /\ op'.fetches = 0
       /\ (/\ op'.kind = "get_media"
           /\ op'.key \in Keys(data)
           /\ ExpiredAtArrival(DictGet(data, op'.key))) => op'.fetches = 0]_vars

\* C16: an event that has already expired when it arrives is not listed: a
\* message of expired events leaves the number of events events() returns as
\* it was, events() lists none of them, and get_media for them returns absent.
C16_ExpiredNotListed ==
    [][(/\ op'.kind = "async_handle_events"
        /\ op'.handled # <<>>
        /\ \A i \in 1..Len(op'.handled) : ExpiredAtArrival(op'.handled[i])) =>
            /\ Len(events(data')) = Len(events(data))
            /\ \A i \in 1..Len(op'.handled) :
                    /\ op'.handled[i] \notin Values(events(data'))
                    /\ \A expired, failing \in BOOLEAN :
                            get_media(data', op'.handled[i].event_id, expired, failing).result
                                = "None"]_vars

\* C17: get_media on a cached session whose record has expired, so that the
\* generator yields no descriptor, returns absent, not an error, fetches
\* nothing through the transport and keeps the cached records.
C17_ExpiredGetMediaAbsent ==
    [][(op'.kind = "get_media" /\ op'.key \in Keys(data) /\ op'.image = "None") =>
            /\ op'.result = "None"
            /\ op'.fetches = 0
            /\ op'.media = NoMedia
            /\ Values(data') = Values(data)]_vars

C17_Witness ==
    /\ op.kind = "get_media"
    /\ op.key \in Keys(data)
    /\ op.image = "None"
    /\ DictGet(data, op.key).event_type \in MediaCapable
    /\ ~ExpiredAtArrival(DictGet(data, op.key))
    /\ op.result = "None"
    /\ Len(data) = 2

Without(s, k) == SelectSeq(s, LAMBDA x : x.event_id # k)

\* C18 as stated: when the transport fails during get_media the error reaches
\* the caller after a single fetch, the cache, records and LRU order, and the
\* store are as they were before the call, and a later get_media for the
\* session can succeed.
C18_FetchFailureLeavesCache ==
    [][(op'.kind = "get_media" /\ op'.result = "FetchError") =>
            /\ op'.fetches = 1
            /\ data' = data
            /\ store' = store
            /\ get_media(data', op'.key, FALSE, FALSE).result = "EventMedia"]_vars

\* C18 as amended: when the transport fails during get_media the error
\* reaches the caller after a single fetch, the cached records and the store
\* are as they were, the session asked for is in the most recent position
\* with the other sessions in their previous order, and a later get_media for
\* the session can succeed.
C18_FetchFailureKeepsRecords ==
    [][(op'.kind = "get_media" /\ op'.result = "FetchError") =>
            /\ op'.fetches = 1
            /\ op'.media = NoMedia
            /\ Values(data') = Values(data)
            /\ LastKey(data') = op'.key
            /\ Without(data', op'.key) = Without(data, op'.key)
            /\ store' = store
            /\ get_media(data', op'.key, FALSE, FALSE).result = "EventMedia"]_vars

C18_Witness ==
    /\ op.kind = "get_media"
    /\ op.result = "FetchError"
    /\ op.image = "EventImage"
    /\ op.fetches = 1
    /\ Len(data) = 2
    /\ recency = KeysOf(data)
    /\ data[1].event_type = "Sound"

ActiveNames(traits) == {name \in EventTraitMap : active_event(traits, name) # NoTraitEvent}

Completes == op'.kind = "get_media" /\ Len(inflight') < Len(inflight)

\* C22: when a suspended get_media completes after async_handle_events has
\* evicted its session, the result is dropped: the session is not put back in
\* the cache, nothing is saved in the store and the caller gets no media.
C22_EvictedWhileFetching ==
    [][(/\ Completes
        /\ \A e \in Values(data) : e.event_session_id # SessionOf(op'.key)) =>
            /\ op'.result # "EventMedia"
            /\ op'.media = NoMedia
            /\ data' = data
            /\ store' = store]_vars

\* C23: at most one fetch is issued for a cached event, also when two
\* get_media calls for it overlap: when two calls that were suspended
\* together for the same event complete one after the other, the second has
\* issued no fetch if the first has issued one.
C23_AtMostOneFetch ==
    [][(/\ op.kind = "get_media" /\ op.fetches >= 1
        /\ Completes
        /\ op'.key = op.key
        /\ op'.media.event_timestamp = op.media.event_timestamp
        /\ op.key \in Keys(data)) => op'.fetches = 0]_vars

\* C24: the managers of two devices share no cache state: async_handle_events
\* of one manager leaves the records and the order of the other manager's
\* cache as they were, also for events with the same ids and sessions and
\* with one store for both.
C24_ManagersIsolated ==
    [][/\ op'.kind = "async_handle_events" => peer' = peer
       /\ op'.kind = "peer_async_handle_events" =>
            (data' = data /\ recency' = recency)]_vars

C24_Witness ==
    /\ op.kind = "peer_async_handle_events"
    /\ Len(data) = 2
    /\ Len(peer) = 2
    /\ LastKey(op.handled) \in Keys(data)
    /\ LastKey(data) # LastKey(peer)
    /\ Keys(data) # Keys(peer)

C26_SettersChangePolicyOnly ==
    [][/\ op'.kind = "event_cache_size" =>
            (data' = data /\ prefetch' = prefetch /\ store' = store)
       /\ op'.kind = "prefetch" =>
            (data' = data /\ event_cache_size' = event_cache_size /\ store' = store)]_vars

C26_Witness ==
    /\ op.kind = "event_cache_size"
    /\ Len(data) = 2
    /\ event_cache_size = 1

SetOf(s) == {s[i] : i \in 1..Len(s)}

\* C27: a record leaves the cache only by LRU eviction inside
\* async_handle_events: get_media and events() neither add nor remove an
\* entry, and a key async_handle_events removes was evicted as the least
\* recently touched one, by a call that had more keys to hold than
\* event_cache_size.
C27_LeavesOnlyByLruEviction ==
    [][/\ op'.kind \in {"get_media", "events"} => Values(data') = Values(data)
       /\ op'.kind = "async_handle_events" =>
            /\ Keys(data) \ Keys(data') \subseteq SetOf(KeysOf(Handle(op'.events).evicted))
            /\ Handle(op'.events).evicted # <<>> =>
                    /\ Cardinality(Keys(data) \cup SetOf(KeysOf(op'.handled)))
                            > event_cache_size
                    /\ ReplayMessage(op'.events).lru]_vars

\* C28: handling the same event message twice in a row leaves the same set
\* of cached records as handling it once: the second call duplicates no
\* entry and evicts no entry the first call kept.
C28_HandlingTwiceAsOnce ==
    [][op'.kind = "async_handle_events" =>
            LET twice == async_handle_events(data', event_cache_size, op'.events).data
            IN  /\ Values(twice) = Values(data')
                /\ Cardinality(Keys(twice)) = Len(twice)]_vars

\* C29: with event_cache_size >= 1, the last event an async_handle_events
\* call ingested, when it is media-capable, is in the cache when the call
\* returns, whether it was a new insert or an update of an existing entry
\* and whatever the size changes before: the call never evicts the event it
\* has just stored.
C29_LastIngestedStaysCached ==
    (/\ op.kind = "async_handle_events"
     /\ event_cache_size >= 1
     /\ op.handled # <<>>
     /\ LastOf(op.handled).event_type \in MediaCapable) =>
        /\ LastOf(op.handled).event_id \in Keys(data)
        /\ DictGet(data, LastOf(op.handled).event_id) = LastOf(op.handled)

CallsOn(calls, name, e) ==
    {i \in 1..Len(calls) : calls[i] = [call |-> name, event |-> e]}

\* C30: for each event of a message whose trait name is in the event trait
\* map, async_handle_events calls the trait's handle_event exactly once and
\* before it stores the event in the cache; for an event it skips it calls
\* handle_event on no trait and stores nothing, so the events forwarded are
\* the mapped events of the message, in message order.
C30_ForwardedOnceBeforeStore ==
    [][op'.kind = "async_handle_events" =>
            /\ \A i \in 1..Len(op'.events) :
                    LET e == op'.events[i]
                        forwarded == CallsOn(op'.calls, "handle_event", e)
                        stored == CallsOn(op'.calls, "store", e)
                    IN  IF e.event_type \in EventTraitMap
                        THEN /\ Cardinality(forwarded) = 1
                             /\ Cardinality(stored) = 1
                             /\ \A f \in forwarded : \A s \in stored : f < s
                        ELSE forwarded = {} /\ stored = {}
            /\ Len(op'.calls) = 2 * Len(Ingested(op'.events))
            /\ op'.handled = Ingested(op'.events)]_vars

C30_Witness ==
    /\ op.kind = "async_handle_events"
    /\ Len(op.events) = 2
    /\ op.events[1].event_type \in EventTraitMap
    /\ op.events[2].event_type \notin EventTraitMap
    /\ op.handled = <<op.events[1]>>
    /\ op.events[1] \in Values(data)
    /\ op.events[2] \notin Values(data)

\* C31: active_events(event_types) returns a mapping whose keys are exactly
\* the requested names that are in the event trait map and have an active
\* event, each mapped to that trait's active event and to nothing else;
\* names outside the map or without an active event are omitted, and the
\* call leaves the cache records and their order as they were.
C31_ActiveEventsOfRequested ==
    [][op'.kind = "active_events" =>
            /\ DictKeys(op'.active_events)
                    = {name \in SetOf(op'.event_types) \cap EventTraitMap :
                            active_event(op'.traits, name) # NoTraitEvent}
            /\ \A p \in op'.active_events :
                    p[2] = active_event(op'.traits, p[1])
            /\ Cardinality(op'.active_events) = Cardinality(DictKeys(op'.active_events))
            /\ data' = data
            /\ recency' = recency]_vars

C31_Witness ==
    /\ op.kind = "active_events"
    /\ op.event_types = <<"Chime", "Motion">>
    /\ active_event(op.traits, "Motion") # NoTraitEvent
    /\ active_event(op.traits, "Sound") # NoTraitEvent
    /\ op.active_events = {<<"Motion", active_event(op.traits, "Motion")>>}
    /\ Len(data) = 2

\* C32: the active-event resolver only selects a trait: evaluating
\* active_event_trait issues no media fetch and leaves the cache records,
\* their order in the cache and their LRU order unchanged.
C32_ResolverOnlySelects ==
    [][op'.kind = "active_event_trait" =>
            /\ op'.fetches = 0
            /\ data' = data
            /\ recency' = recency]_vars

C32_Witness ==
    /\ op.kind = "active_event_trait"
    /\ op.trait \in EventTraitMap
    /\ op.fetches = 0
    /\ Len(data) = 2
    /\ recency = KeysOf(data)

====
